---- MODULE Spec2Model ----
(***************************************************************************)
(* Model of partition_number_generator (src/partition_number_generator.py) *)
(* : the two lazy producers (yield_gaps, gaps_to_indices), the recurrence  *)
(* generator (generate_partition_numbers, calculate_single_number) and the *)
(* query nth_partition_number with its cache self.numbers.                 *)
(***************************************************************************)
EXTENDS Integers, Sequences, FiniteSets, TLC

(* ---- bounds ---------------------------------------------------------- *)
\* arguments 0..MaxN are passed to nth_partition_number
MaxN == 12
\* arguments -MaxNeg..-1 are passed to nth_partition_number
MaxNeg == 3
\* number of values pulled from each stand-alone producer
MaxPulls == 10

VARIABLES
    numbers,          \* self.numbers: the result list (Python ints)
    index_list,       \* self.index_list
    next_index,       \* self.next_index
    index_generator,  \* self.index_generator: suspended gaps_to_indices()
    gen,              \* self.gen: position of generate_partition_numbers()
    pc,               \* position of the running nth_partition_number call
    n,                \* argument of the running / last call
    result,           \* outcome of the last call
    callLen,          \* len(self.numbers) when the running / last call began
    gapGen,           \* a stand-alone yield_gaps() generator
    gapOut,           \* the values pulled from gapGen so far
    idxGen,           \* a stand-alone gaps_to_indices() generator
    idxOut            \* the values pulled from idxGen so far

objVars == <<numbers, index_list, next_index, index_generator, gen, pc, n,
             result, callLen>>
prodVars == <<gapGen, gapOut, idxGen, idxOut>>
vars == <<numbers, index_list, next_index, index_generator, gen, pc, n,
          result, callLen, gapGen, gapOut, idxGen, idxOut>>

(* ---- Python int ------------------------------------------------------ *)
\* A Python int v is kept exactly as hi * Limb + lo with 0 <= lo < Limb
\* (TLC's own integers are 32 bit wide; p(200) is not).
Limb == 10^9

PyInt(k) == [hi |-> k \div Limb, lo |-> k % Limb]

\* a + b
IntAdd(a, b) ==
    LET s == a.lo + b.lo
    IN  [hi |-> a.hi + b.hi + (s \div Limb), lo |-> s % Limb]

\* -a
IntNeg(a) ==
    IF a.lo = 0 THEN [hi |-> 0 - a.hi, lo |-> 0]
    ELSE [hi |-> 0 - a.hi - 1, lo |-> Limb - a.lo]

\* sign * a, for sign in {1, -1}
IntMul(sign, a) == IF sign = 1 THEN a ELSE IntNeg(a)

\* a <= b
IntLeq(a, b) == a.hi < b.hi \/ (a.hi = b.hi /\ a.lo <= b.lo)

\* seq[k] of a Python list, k possibly negative; ok = FALSE is IndexError
PyIndex(seq, k) ==
    IF 0 <= k /\ k < Len(seq) THEN [ok |-> TRUE, val |-> seq[k + 1]]
    ELSE IF k < 0 /\ 0 - Len(seq) <= k
         THEN [ok |-> TRUE, val |-> seq[Len(seq) + k + 1]]
         ELSE [ok |-> FALSE, val |-> PyInt(0)]

(* ---- yield_gaps ------------------------------------------------------ *)
\* a generator not yet started
YieldGapsNew == [at |-> "start", i |-> 0]

\* the second yield written as 2 * i
YieldGapsNextEven(g) ==
    IF g.at = "start" THEN [g |-> [at |-> "yield_i", i |-> 1], val |-> 1]
    ELSE IF g.at = "yield_i"
         THEN [g |-> [at |-> "yield_2i1", i |-> g.i], val |-> 2 * g.i]
         ELSE [g |-> [at |-> "yield_i", i |-> g.i + 1], val |-> g.i + 1]

\* next(g) for a yield_gaps generator: the new generator state and the value
YieldGapsNext(g) ==
    IF g.at = "start" THEN [g |-> [at |-> "yield_i", i |-> 1], val |-> 1]
    ELSE IF g.at = "yield_i"
         THEN [g |-> [at |-> "yield_2i1", i |-> g.i], val |-> 2 * g.i + 1]
         ELSE [g |-> [at |-> "yield_i", i |-> g.i + 1], val |-> g.i + 1]

(* ---- gaps_to_indices ------------------------------------------------- *)
GapsToIndicesNew == [at |-> "start", cumulative |-> 0, gaps |-> YieldGapsNew]

\* the running total started at 0 instead of 1
GapsToIndicesNextFromZero(g) ==
    IF g.at = "start"
    THEN [g |-> [at |-> "first", cumulative |-> 0, gaps |-> g.gaps], val |-> 0]
    ELSE LET i == YieldGapsNext(g.gaps)
             c == g.cumulative + i.val
         IN  [g |-> [at |-> "loop", cumulative |-> c, gaps |-> i.g], val |-> c]

\* next(g) for a gaps_to_indices generator
GapsToIndicesNext(g) ==
    IF g.at = "start"
    THEN [g |-> [at |-> "first", cumulative |-> 1, gaps |-> g.gaps], val |-> 1]
    ELSE LET i == YieldGapsNext(g.gaps)
             c == g.cumulative + i.val
         IN  [g |-> [at |-> "loop", cumulative |-> c, gaps |-> i.g], val |-> c]

(* ---- calculate_single_number ----------------------------------------- *)
RECURSIVE CalcLoopEveryTerm(_, _, _, _, _)
\* the sign switched on every term instead of every second one
CalcLoopEveryTerm(nums, indices, k, sign, cumulative) ==
    IF k >= Len(indices) THEN [ok |-> TRUE, val |-> cumulative]
    ELSE LET sign2 == sign * (0 - 1)
             item == PyIndex(nums, 0 - indices[k + 1])
         IN  IF ~item.ok THEN [ok |-> FALSE, val |-> cumulative]
             ELSE CalcLoopEveryTerm(nums, indices, k + 1, sign2,
                                    IntAdd(cumulative, IntMul(sign2, item.val)))

RECURSIVE CalcLoop(_, _, _, _, _)
\* the for loop, at position k of indices
CalcLoop(nums, indices, k, sign, cumulative) ==
    IF k >= Len(indices) THEN [ok |-> TRUE, val |-> cumulative]
    ELSE LET sign2 == IF k % 2 = 0 THEN sign * (0 - 1) ELSE sign
             item == PyIndex(nums, 0 - indices[k + 1])
         IN  IF ~item.ok THEN [ok |-> FALSE, val |-> cumulative]
             ELSE CalcLoop(nums, indices, k + 1, sign2,
                           IntAdd(cumulative, IntMul(sign2, item.val)))

\* a slip of the initial sign: the pattern becomes -,-,+,+,...
CalculateSingleNumberSign(nums, indices) ==
    CalcLoop(nums, indices, 0, 1, PyInt(0))

CalculateSingleNumber(nums, indices) ==
    CalcLoop(nums, indices, 0, 0 - 1, PyInt(0))

(* ---- the object ------------------------------------------------------ *)
NoResult == [kind |-> "none", val |-> PyInt(0)]
Returned(r) == IF r.ok THEN [kind |-> "return", val |-> r.val]
               ELSE [kind |-> "IndexError", val |-> PyInt(0)]

\* the arguments nth_partition_number is called with
Args == ((0 - MaxNeg) .. MaxN) \cup {100, 200}

\* __init__
NewObj ==
    LET p1 == GapsToIndicesNext(GapsToIndicesNew)
        p2 == GapsToIndicesNext(p1.g)
    IN  [index_generator |-> p2.g,
         index_list |-> <<p1.val>>,
         next_index |-> p2.val,
         numbers |-> <<PyInt(1)>>,
         gen |-> "start"]

\* the object as one record
Self == [index_generator |-> index_generator,
         index_list |-> index_list,
         next_index |-> next_index,
         numbers |-> numbers,
         gen |-> gen]

\* one extension too early
InnerWhileEarly(o) == o.next_index >= Len(o.numbers)

\* one extension too many
InnerWhileAhead(o) == o.next_index > Len(o.numbers) + 1

\* generate_partition_numbers, line 71: the inner while test
InnerWhile(o) == o.next_index > Len(o.numbers)

\* generate_partition_numbers, lines 75-77: compute, append, yield;
\* ok = FALSE when calculate_single_number raises IndexError
GenCalcStep(o) ==
    LET ans == CalculateSingleNumber(o.numbers, o.index_list)
    IN  IF ans.ok
        THEN [ok |-> TRUE,
              o |-> [o EXCEPT !.numbers = Append(o.numbers, ans.val),
                              !.gen = "yielded"]]
        ELSE [ok |-> FALSE, o |-> [o EXCEPT !.gen = "dead"]]

\* generate_partition_numbers, lines 82-83
GenExtendStep(o) ==
    LET p == GapsToIndicesNext(o.index_generator)
    IN  [o EXCEPT !.index_list = Append(o.index_list, o.next_index),
                  !.next_index = p.val,
                  !.index_generator = p.g]

RECURSIVE GenResume(_)
\* next(self.gen): run the generator to its next yield
GenResume(o) ==
    IF InnerWhile(o) THEN GenCalcStep(o) ELSE GenResume(GenExtendStep(o))

\* the cache test off by one
IsCachedShort(o, m) == m < Len(o.numbers) - 1

\* nth_partition_number, line 100
IsCached(o, m) == m < Len(o.numbers)

\* the cached branch returning the last entry instead of entry m
CachedLookupLast(o, m) == PyIndex(o.numbers, 0 - 1)

\* nth_partition_number, line 101
CachedLookup(o, m) == PyIndex(o.numbers, m)

\* the loop test off by one
LoopTestShort(o, m) == m > Len(o.numbers)

\* nth_partition_number, line 104
LoopTest(o, m) == m >= Len(o.numbers)

\* nth_partition_number, line 112
LastNumber(o) == PyIndex(o.numbers, 0 - 1)

RECURSIVE NthLoop(_, _)
\* nth_partition_number, lines 104-112
NthLoop(o, m) ==
    IF LoopTest(o, m)
    THEN IF o.gen = "dead"
         THEN [o |-> o, result |-> [kind |-> "StopIteration", val |-> PyInt(0)]]
         ELSE LET r == GenResume(o)
              IN  IF r.ok THEN NthLoop(r.o, m)
                  ELSE [o |-> r.o,
                        result |-> [kind |-> "IndexError", val |-> PyInt(0)]]
    ELSE [o |-> o, result |-> Returned(LastNumber(o))]

\* nth_partition_number(m) as one call: the object afterwards and the outcome
NthPartitionNumber(o, m) ==
    IF IsCached(o, m) THEN [o |-> o, result |-> Returned(CachedLookup(o, m))]
    ELSE NthLoop(o, m)

ProdInit ==
    /\ gapGen = YieldGapsNew
    /\ gapOut = <<>>
    /\ idxGen = GapsToIndicesNew
    /\ idxOut = <<>>

ObjInit ==
    /\ index_generator = NewObj.index_generator
    /\ index_list = NewObj.index_list
    /\ next_index = NewObj.next_index
    /\ numbers = NewObj.numbers
    /\ gen = NewObj.gen
    /\ pc = "idle"
    /\ n = 0
    /\ result = NoResult
    /\ callLen = 1

Init == ObjInit /\ ProdInit

\* the object becomes o
Becomes(o) ==
    /\ index_generator' = o.index_generator
    /\ index_list' = o.index_list
    /\ next_index' = o.next_index
    /\ numbers' = o.numbers
    /\ gen' = o.gen

\* nth_partition_number(m), lines 100-101: the cached branch, or enter the loop
Call(m) ==
    /\ pc = "idle"
    /\ n' = m
    /\ callLen' = Len(numbers)
    /\ IF IsCached(Self, m)
       THEN /\ result' = Returned(CachedLookup(Self, m))
            /\ pc' = "idle"
       ELSE /\ result' = NoResult
            /\ pc' = "loop"
    /\ UNCHANGED <<numbers, index_list, next_index, index_generator, gen>>
    /\ UNCHANGED prodVars

\* lines 104-108: the loop test holds, next(self.gen) resumes the generator
LoopNext ==
    /\ pc = "loop"
    /\ LoopTest(Self, n)
    /\ IF gen = "dead"
       THEN /\ pc' = "idle"
            /\ result' = [kind |-> "StopIteration", val |-> PyInt(0)]
       ELSE /\ pc' = "gen"
            /\ UNCHANGED result
    /\ UNCHANGED <<numbers, index_list, next_index, index_generator, gen, n,
                   callLen>>
    /\ UNCHANGED prodVars

\* lines 104, 112: the loop test fails, return self.numbers[-1]
Return ==
    /\ pc = "loop"
    /\ ~LoopTest(Self, n)
    /\ result' = Returned(LastNumber(Self))
    /\ pc' = "idle"
    /\ UNCHANGED <<numbers, index_list, next_index, index_generator, gen, n,
                   callLen>>
    /\ UNCHANGED prodVars

\* the running generator computes, appends and yields (lines 71-77)
GenCalc ==
    /\ pc = "gen"
    /\ InnerWhile(Self)
    /\ LET r == GenCalcStep(Self)
       IN  /\ Becomes(r.o)
           /\ IF r.ok
              THEN pc' = "loop" /\ UNCHANGED result
              ELSE /\ pc' = "idle"
                   /\ result' = [kind |-> "IndexError", val |-> PyInt(0)]
    /\ UNCHANGED <<n, callLen>>
    /\ UNCHANGED prodVars

\* the running generator moves next_index into index_list (lines 71, 82-83)
GenExtend ==
    /\ pc = "gen"
    /\ ~InnerWhile(Self)
    /\ Becomes(GenExtendStep(Self))
    /\ UNCHANGED <<pc, n, result, callLen>>
    /\ UNCHANGED prodVars

Next ==
    \/ \E m \in Args : Call(m)
    \/ LoopNext
    \/ Return
    \/ GenCalc
    \/ GenExtend

Spec == Init /\ [][Next]_vars

(* ---- the producers on their own -------------------------------------- *)
\* next() on a fresh yield_gaps generator
PullGap ==
    /\ Len(gapOut) < MaxPulls
    /\ LET p == YieldGapsNext(gapGen)
       IN  gapGen' = p.g /\ gapOut' = Append(gapOut, p.val)
    /\ UNCHANGED <<idxGen, idxOut>>
    /\ UNCHANGED objVars

\* next() on a fresh gaps_to_indices generator
PullIndex ==
    /\ Len(idxOut) < MaxPulls
    /\ LET p == GapsToIndicesNext(idxGen)
       IN  idxGen' = p.g /\ idxOut' = Append(idxOut, p.val)
    /\ UNCHANGED <<gapGen, gapOut>>
    /\ UNCHANGED objVars

ProdNext ==
    \/ PullGap
    \/ PullIndex

ProdSpec == Init /\ [][ProdNext]_vars

TypeOK ==
    /\ pc \in {"idle", "loop", "gen"}
    /\ gen \in {"start", "yielded", "dead"}
    /\ n \in Args
    /\ next_index \in Nat
    /\ \A k \in 1..Len(numbers) : numbers[k].lo \in 0..(Limb - 1)

(* ---- what the claims speak of ---------------------------------------- *)
\* the last call has ended with an outcome
Ended == pc = "idle" /\ result.kind # "none"

RECURSIVE CountParts(_, _)
\* the number of multisets of integers in 1..k that sum to m
CountParts(m, k) ==
    IF m = 0 THEN 1
    ELSE IF k = 0 THEN 0
    ELSE CountParts(m, k - 1) + (IF m >= k THEN CountParts(m - k, k) ELSE 0)

\* the partition number of m
PartitionNumber(m) == CountParts(m, m)

Canonical == <<1, 1, 2, 3, 5, 7, 11, 15, 22, 30, 42>>

RECURSIVE OffsetsFrom(_, _, _)
\* the terms of the offset sequence that are <= len, and the term after them
OffsetsFrom(g, acc, len) ==
    LET p == GapsToIndicesNext(g)
    IN  IF p.val > len THEN [list |-> acc, next |-> p.val]
        ELSE OffsetsFrom(p.g, Append(acc, p.val), len)

OffsetsUpTo(len) == OffsetsFrom(GapsToIndicesNew, <<>>, len)

Max(a, b) == IF a >= b THEN a ELSE b

\* an upper bound on the steps the running call still takes: 0 when no call
\* runs, and 4 for every entry of R still missing
StepsLeft ==
    LET missing == Max(0, n + 1 - Len(numbers))
    IN  IF pc = "idle" THEN 0
        ELSE IF pc = "loop" THEN 4 * missing + 1
        ELSE IF InnerWhile(Self) THEN 4 * missing - 1
        ELSE 4 * missing

\* the running call can take a step: the guard of LoopNext, Return, GenCalc
\* or GenExtend holds (what follows each guard only assigns the next state)
CanStep ==
    \/ pc = "loop" /\ LoopTest(Self, n)
    \/ pc = "loop" /\ ~LoopTest(Self, n)
    \/ pc = "gen" /\ InnerWhile(Self)
    \/ pc = "gen" /\ ~InnerWhile(Self)

(* ---- C1 --------------------------------------------------------------- *)
\* C1: a call with n >= 0, made after any earlier calls, returns the
\* partition number of n: the count of multisets of positive integers that
\* sum to n for n <= MaxN, the listed values for n = 0..10, 190569292 for
\* n = 100 and 3972999029388 for n = 200.
C1_ReturnsPartitionNumber ==
    (Ended /\ n >= 0) =>
        /\ result.kind = "return"
        /\ n <= MaxN => result.val = PyInt(PartitionNumber(n))
        /\ n <= 10 => result.val = PyInt(Canonical[n + 1])
        /\ n = 100 => result.val = PyInt(190569292)
        /\ n = 200 => result.val = [hi |-> 3972, lo |-> 999029388]

\* a call for 200 has returned on an object that had served other calls
C1_Witness ==
    /\ Ended /\ n = 200 /\ result.kind = "return"
    /\ callLen > 10 /\ callLen < 100

(* ---- C2 --------------------------------------------------------------- *)
\* C2: a call with n < 0 signals InvalidArgument and returns no value.
C2_NegativeIsInvalidArgument ==
    (Ended /\ n < 0) => result.kind = "InvalidArgument"

(* ---- C3 --------------------------------------------------------------- *)
\* C3: whatever calls came before, a call with n >= 0 returns what the same
\* call returns on a newly constructed object: the value depends on n alone.
C3_SameAsOnNewObject ==
    (Ended /\ n >= 0) => result = NthPartitionNumber(NewObj, n).result

\* a call answered from a cache that earlier, larger calls had filled
C3_Witness ==
    /\ Ended /\ result.kind = "return"
    /\ n > 0 /\ n + 1 < callLen

(* ---- C4 --------------------------------------------------------------- *)
\* C4: a call with 0 <= n < len(R) returns R[n] at once and leaves R, O, P,
\* the producers' cursors and the engine's position as they were.
C4_CachedCallIsFrameFree ==
    [][(pc = "idle" /\ 0 <= n' /\ n' < Len(numbers)) =>
          /\ pc' = "idle"
          /\ result' = [kind |-> "return", val |-> numbers[n' + 1]]
          /\ UNCHANGED <<numbers, index_list, next_index, index_generator,
                         gen>>]_vars

\* after the call for 100, a call with a smaller argument has returned
C4_Witness ==
    /\ Ended /\ callLen = 101 /\ Len(numbers) = 101
    /\ n >= 0 /\ n < 100 /\ result.kind = "return"

(* ---- C5 --------------------------------------------------------------- *)
\* C5 as stated: the first 6 offsets are 1, 2, 4, 7, 11, 12.
C5_Original ==
    Len(idxOut) >= 6 => SubSeq(idxOut, 1, 6) = <<1, 2, 4, 7, 11, 12>>

\* C5 amended: the first 6 terms pulled from a fresh gaps_to_indices
\* producer are 1, 2, 5, 7, 12, 15.
C5_FirstSixOffsets ==
    Len(idxOut) >= 6 => SubSeq(idxOut, 1, 6) = <<1, 2, 5, 7, 12, 15>>

C5_Witness == Len(idxOut) = 6

(* ---- C6 --------------------------------------------------------------- *)
\* C6: term 2i-1 of the gap sequence is i and term 2i is 2i+1; its first 8
\* terms are 1, 3, 2, 5, 3, 7, 4, 9.
C6_GapSequence ==
    /\ \A k \in 1..Len(gapOut) :
          gapOut[k] = IF k % 2 = 1 THEN (k + 1) \div 2 ELSE k + 1
    /\ Len(gapOut) >= 8 => SubSeq(gapOut, 1, 8) = <<1, 3, 2, 5, 3, 7, 4, 9>>

C6_Witness == Len(gapOut) = 8

(* ---- C7 --------------------------------------------------------------- *)
\* C7: in every reachable state the result list is non-decreasing.
C7_NumbersNonDecreasing ==
    \A k \in 1..(Len(numbers) - 1) : IntLeq(numbers[k], numbers[k + 1])

C7_Witness == Len(numbers) = 201

(* ---- C8 --------------------------------------------------------------- *)
\* C8: whenever calculate_single_number is about to be called, index_list
\* holds exactly the offsets <= len(R) in increasing order, next_index is
\* the offset after them and exceeds len(R), and every operand index
\* len(R) - offset lies in 0..len(R)-1.
C8_OffsetsCoverAtCalc ==
    (pc = "gen" /\ InnerWhile(Self)) =>
        /\ index_list = OffsetsUpTo(Len(numbers)).list
        /\ next_index = OffsetsUpTo(Len(numbers)).next
        /\ next_index > Len(numbers)
        /\ \A k \in 1..Len(index_list) :
              /\ Len(numbers) - index_list[k] \in 0..(Len(numbers) - 1)
              /\ k > 1 => index_list[k - 1] < index_list[k]

\* the sum is about to be formed over eight offsets
C8_Witness == pc = "gen" /\ InnerWhile(Self) /\ Len(index_list) = 8

(* ---- C9 --------------------------------------------------------------- *)
\* C9: a call with n >= 0 begun at len(R) = L ends (while it runs a step is
\* always possible and every step lowers StepsLeft); then len(R) is
\* max(L, n+1) and the value returned is R[n]; no step changes or removes an
\* entry of R, and a step that appends appends exactly one.
C9_CallExtendsToN ==
    /\ []((Ended /\ n >= 0) =>
            /\ result.kind = "return"
            /\ Len(numbers) = Max(callLen, n + 1)
            /\ result.val = numbers[n + 1])
    /\ [](pc # "idle" => CanStep /\ StepsLeft > 0)
    /\ [][/\ Len(numbers') \in {Len(numbers), Len(numbers) + 1}
          /\ SubSeq(numbers', 1, Len(numbers)) = numbers
          /\ pc # "idle" => StepsLeft' < StepsLeft]_vars

\* a call that had to run the engine 88 times has returned
C9_Witness ==
    Ended /\ n = 100 /\ callLen = 13 /\ Len(numbers) = 101

(* ---- C10 -------------------------------------------------------------- *)
\* C10: while the engine is suspended, max(O) <= len(R) <= P; a step that
\* appends an offset to O pulls one value from the offset producer and
\* leaves P > len(R), so the step after it appends to R: at most one offset
\* is appended between two appends to R, and the engine step ends.
C10_OneOffsetPerNumber ==
    /\ [](pc # "gen" =>
            /\ index_list[Len(index_list)] <= Len(numbers)
            /\ Len(numbers) <= next_index)
    /\ [][index_list' # index_list =>
            /\ index_list' = Append(index_list, next_index)
            /\ index_generator' = GapsToIndicesNext(index_generator).g
            /\ numbers' = numbers
            /\ pc' = "gen" /\ InnerWhile(Self)']_vars
    /\ [][index_generator' # index_generator => index_list' # index_list]_vars
    /\ [][(pc = "gen" /\ InnerWhile(Self)) =>
            (pc' # "gen" /\ Len(numbers') = Len(numbers) + 1)]_vars

\* the engine is suspended with the pending offset equal to len(R)
C10_Witness ==
    pc = "loop" /\ next_index = Len(numbers) /\ Len(index_list) = 7
====
